---- MODULE Spec2Model ----
(***************************************************************************)
(* Model of src/index.js: the Nuxt alias -> relative path converter.       *)
(* Text is a sequence of one-character strings; a path is a sequence of    *)
(* segments, each segment a sequence of characters (POSIX, absolute).      *)
(***************************************************************************)
EXTENDS Integers, Sequences, FiniteSets, TLC

----------------------------------------------------------------------------
(* Characters and strings                                                  *)

Quotes == {"'", "\""}

LineTerminators == {"\n", "\r"}

StartsWithAt(s, i, t) ==
    /\ i + Len(t) - 1 <= Len(s)
    /\ SubSeq(s, i, i + Len(t) - 1) = t

StartsWith(s, t) == StartsWithAt(s, 1, t)

EndsWith(s, t) ==
    /\ Len(t) <= Len(s)
    /\ SubSeq(s, Len(s) - Len(t) + 1, Len(s)) = t

RECURSIVE Split(_, _)
Split(s, cur) ==
    IF s = <<>> THEN <<cur>>
    ELSE IF Head(s) = "/" THEN <<cur>> \o Split(Tail(s), <<>>)
    ELSE Split(Tail(s), Append(cur, Head(s)))

RECURSIVE JoinSegments(_)
JoinSegments(segs) ==
    IF segs = <<>> THEN <<>>
    ELSE IF Len(segs) = 1 THEN Head(segs)
    ELSE Head(segs) \o <<"/">> \o JoinSegments(Tail(segs))

----------------------------------------------------------------------------
(* path.join / path.relative / path.dirname on absolute POSIX paths        *)

RECURSIVE Normalize(_, _)
Normalize(segs, acc) ==
    IF segs = <<>> THEN acc
    ELSE LET h == Head(segs) IN
         IF h = <<>> \/ h = <<".">> THEN Normalize(Tail(segs), acc)
         ELSE IF h = <<".", ".">>
              THEN Normalize(Tail(segs),
                             IF acc = <<>> THEN <<>> ELSE SubSeq(acc, 1, Len(acc) - 1))
         ELSE Normalize(Tail(segs), Append(acc, h))

PathJoin(base, rest) == Normalize(base \o Split(rest, <<>>), <<>>)

RECURSIVE CommonLen(_, _)
CommonLen(a, b) ==
    IF a = <<>> \/ b = <<>> THEN 0
    ELSE IF Head(a) = Head(b) THEN 1 + CommonLen(Tail(a), Tail(b))
    ELSE 0

PathRelative(from, to) ==
    LET k == CommonLen(from, to) IN
    JoinSegments([i \in 1..(Len(from) - k) |-> <<".", ".">>] \o SubSeq(to, k + 1, Len(to)))

PathDirname(p) == SubSeq(p, 1, Len(p) - 1)

PathString(p) == <<"/">> \o JoinSegments(p)

----------------------------------------------------------------------------
(* The project on disk                                                     *)

ProjectRoot == << <<"p">> >>

SrcName == <<"s", "r", "c">>

StartDir == PathJoin(ProjectRoot, SrcName)

DirC == Append(StartDir, <<"c">>)

DirE == Append(StartDir, <<"e">>)

Entry(n, d) == [name |-> n, isDirectory |-> d]

\* fs.readdirSync(dir): the entries of each directory, in enumeration order
ReadDir(dir) ==
    IF dir = ProjectRoot
    THEN << Entry(<<".", "g", "i", "t">>, TRUE), Entry(SrcName, TRUE) >>
    ELSE IF dir = StartDir
    THEN << Entry(<<"c">>, TRUE),
            Entry(<<"e">>, TRUE),
            Entry(<<"n", ".", "m", "d">>, FALSE),
            Entry(<<"z", ".", "t", "s">>, FALSE) >>
    ELSE IF dir = DirC
    THEN << Entry(<<"b", ".", "v", "u", "e">>, FALSE) >>
    ELSE IF dir = DirE
    THEN << Entry(<<"a", ".", "j", "s">>, FALSE) >>
    ELSE << >>

Directories == {ProjectRoot, StartDir, DirC, DirE}

FileN == Append(StartDir, <<"n", ".", "m", "d">>)
FileZ == Append(StartDir, <<"z", ".", "t", "s">>)
FileB == Append(DirC, <<"b", ".", "v", "u", "e">>)
FileA == Append(DirE, <<"a", ".", "j", "s">>)

Files == {FileN, FileZ, FileB, FileA}

ExistsSync(p) == p \in Directories \/ p \in Files

RECURSIVE FilterVisible(_)
FilterVisible(entries) ==
    IF entries = <<>> THEN <<>>
    ELSE LET e == Head(entries) IN
         (IF e.isDirectory /\ ~StartsWith(e.name, <<".">>) THEN <<e.name>> ELSE <<>>)
         \o FilterVisible(Tail(entries))

GetVisibleDirectories(rootDir) == FilterVisible(ReadDir(rootDir))

Range(f) == {f[i] : i \in DOMAIN f}

GetKnownDirectories ==
    LET srcDir == PathJoin(ProjectRoot, SrcName)
        rootDirectories == GetVisibleDirectories(ProjectRoot)
        srcDirectories == IF ExistsSync(srcDir) THEN GetVisibleDirectories(srcDir) ELSE <<>>
    IN Range(rootDirectories \o srcDirectories)

KnownDirectoriesFor(shouldReplaceAbsolutePaths) ==
    IF shouldReplaceAbsolutePaths THEN GetKnownDirectories ELSE {}

----------------------------------------------------------------------------
(* The Alias Table                                                         *)

\* what loadNuxtConfig can resolve to: no user aliases, or user aliases that
\* override a default ("@") and add a token ("#")
NuxtConfigs ==
    { [rootDir |-> ProjectRoot, srcDir |-> PathString(StartDir), alias |-> <<>>],
      [rootDir |-> <<>>, srcDir |-> <<>>,
       alias |-> << <<<<"@">>, DirC>>, <<<<"#">>, DirC>> >>] }

DefaultAliases(srcDir, rootDir) ==
    << <<<<"~">>, srcDir>>,
       <<<<"@">>, srcDir>>,
       <<<<"~", "~">>, rootDir>>,
       <<<<"@", "@">>, rootDir>>,
       <<<<"a", "s", "s", "e", "t", "s">>, PathJoin(srcDir, <<"a", "s", "s", "e", "t", "s">>)>>,
       <<<<"p", "u", "b", "l", "i", "c">>, PathJoin(srcDir, <<"p", "u", "b", "l", "i", "c">>)>> >>

\* { ...acc, [entry[1]]: entry[2] }: an existing key keeps its position
SpreadOne(acc, entry) ==
    IF \E i \in DOMAIN acc : acc[i][1] = entry[1]
    THEN [i \in DOMAIN acc |-> IF acc[i][1] = entry[1] THEN entry ELSE acc[i]]
    ELSE Append(acc, entry)

RECURSIVE Spread(_, _)
Spread(acc, entries) ==
    IF entries = <<>> THEN acc
    ELSE Spread(SpreadOne(acc, Head(entries)), Tail(entries))

GetAliasesWithPaths(nuxtConfig) ==
    LET rootDir == IF nuxtConfig.rootDir # <<>> THEN nuxtConfig.rootDir ELSE ProjectRoot
        srcDir == IF StartsWith(nuxtConfig.srcDir, <<"/">>)
                  THEN PathJoin(<<>>, nuxtConfig.srcDir)
                  ELSE PathJoin(rootDir, IF nuxtConfig.srcDir # <<>>
                                         THEN nuxtConfig.srcDir ELSE SrcName)
    IN Spread(DefaultAliases(srcDir, rootDir), nuxtConfig.alias)

----------------------------------------------------------------------------
(* The two rewriting stages                                                *)

\* (.*?)(['"]) from position i: index of the first quote, 0 when a line
\* terminator (which . does not match) or the end of the text comes first
RECURSIVE ClosingQuote(_, _)
ClosingQuote(s, i) ==
    IF i > Len(s) THEN 0
    ELSE IF s[i] \in Quotes THEN i
    ELSE IF s[i] \in LineTerminators THEN 0
    ELSE ClosingQuote(s, i + 1)

\* (?<!/)alias/ at position i
AliasAt(s, i, alias) ==
    /\ (i = 1 \/ s[i - 1] # "/")
    /\ StartsWithAt(s, i, alias \o <<"/">>)

\* updated.replace(regex, ...) for one alias, scanning from position i
RECURSIVE ReplaceAlias(_, _, _, _, _)
ReplaceAlias(s, i, alias, targetPath, filePath) ==
    IF i > Len(s) THEN <<>>
    ELSE LET j == IF AliasAt(s, i, alias)
                  THEN ClosingQuote(s, i + Len(alias) + 1) ELSE 0
         IN IF j = 0
            THEN <<s[i]>> \o ReplaceAlias(s, i + 1, alias, targetPath, filePath)
            ELSE LET aliasPath == SubSeq(s, i + Len(alias) + 1, j - 1)
                     absoluteAliasPath == PathJoin(targetPath, aliasPath)
                     relativePath == PathRelative(PathDirname(filePath), absoluteAliasPath)
                 IN relativePath \o <<s[j]>>
                    \o ReplaceAlias(s, j + 1, alias, targetPath, filePath)

\* Object.entries(aliases).reduce(...)
RECURSIVE ReduceAliases(_, _, _)
ReduceAliases(entries, updated, filePath) ==
    IF entries = <<>> THEN updated
    ELSE ReduceAliases(Tail(entries),
                       ReplaceAlias(updated, 1, Head(entries)[1], Head(entries)[2], filePath),
                       filePath)

\* updatedContent.replace(absolutePathRegex, ...), scanning from position i
RECURSIVE ReplaceAbsolute(_, _, _, _, _)
ReplaceAbsolute(s, i, rootDir, filePath, knownDirectories) ==
    IF i > Len(s) THEN <<>>
    ELSE LET j == IF s[i] \in Quotes /\ StartsWithAt(s, i + 1, <<"/">>)
                  THEN ClosingQuote(s, i + 2) ELSE 0
         IN IF j = 0
            THEN <<s[i]>> \o ReplaceAbsolute(s, i + 1, rootDir, filePath, knownDirectories)
            ELSE LET absolutePath == SubSeq(s, i + 2, j - 1)
                     firstSegment == Head(Split(absolutePath, <<>>))
                     absoluteFullPath == PathJoin(rootDir, absolutePath)
                     relativeFullPath == PathRelative(PathDirname(filePath), absoluteFullPath)
                 IN (IF firstSegment \in knownDirectories
                     THEN <<s[j]>> \o relativeFullPath \o <<s[j]>>
                     ELSE SubSeq(s, i, j))
                    \o ReplaceAbsolute(s, j + 1, rootDir, filePath, knownDirectories)

AbsoluteStage(updatedContent, filePath, knownDirectories) ==
    LET srcDir == PathJoin(ProjectRoot, SrcName)
        isInSrc == StartsWith(PathString(filePath), PathString(srcDir))
        rootDir == IF isInSrc THEN srcDir ELSE ProjectRoot
    IN ReplaceAbsolute(updatedContent, 1, rootDir, filePath, knownDirectories)

\* the content a file has after both stages
FinalContent(content, filePath, aliases, shouldReplaceAbsolutePaths, knownDirectories) ==
    LET updatedContent == ReduceAliases(aliases, content, filePath)
    IN IF shouldReplaceAbsolutePaths
       THEN AbsoluteStage(updatedContent, filePath, knownDirectories)
       ELSE updatedContent

\* the extension test answers yes for every file
AnyExtension(filePath) == TRUE

HasAcceptedExtension(filePath) ==
    LET s == PathString(filePath) IN
    \/ EndsWith(s, <<".", "t", "s">>)
    \/ EndsWith(s, <<".", "v", "u", "e">>)
    \/ EndsWith(s, <<".", "s", "c", "s", "s">>)
    \/ EndsWith(s, <<".", "j", "s">>)

----------------------------------------------------------------------------
(* Inputs                                                                  *)

MaxSnippets == 1

Snippets ==
    { <<"'", "~", "/", "x", "'">>,
      <<"'", "/", "c", "/", "x", "'">> }

RECURSIVE TextsOf(_, _)
TextsOf(pieces, n) ==
    IF n = 0 THEN {<<>>}
    ELSE LET shorter == TextsOf(pieces, n - 1) IN
         shorter \cup {t \o q : t \in shorter, q \in pieces}

\* what fs.readFileSync can return for a file of the tree
FileTexts == TextsOf(Snippets, MaxSnippets)

----------------------------------------------------------------------------
(* The run: module load, then one replaceAliases call per directory        *)

VARIABLES
    pc,                          \* "start", "running", "done" or "exited"
    exitCode,                    \* -1 while the process runs
    configFileExists,            \* nuxt.config.ts or nuxt.config.js is there
    shouldReplaceAbsolutePaths,  \* --replace-absolute was given
    nuxtConfig,                  \* what loadNuxtConfig resolves to
    knownDirectories,
    pending,                     \* replaceAliases calls awaiting getAliasesWithPaths
    loadCount,                   \* calls of loadNuxtConfig so far
    disk,                        \* file -> content
    original,                    \* file -> content before the run
    writes,                      \* fs.writeFileSync calls, in order
    logged,                      \* "Updated imports in ..." lines, in order
    visited,                     \* entries the forEach callbacks handled, in order
    rwFile,                      \* one file through the rewriter: its path,
    rwText,                      \* the content read,
    rwStage,                     \* "input", "aliased", "reordered", "final", "second"
    rwUpdated,                   \* updatedContent,
    rwFinal,                     \* the content the run leaves,
    rwSecond                     \* the content the next run leaves

runVars == <<pc, exitCode, configFileExists, shouldReplaceAbsolutePaths, nuxtConfig,
             knownDirectories, pending, loadCount, disk, original, writes, logged,
             visited>>

rwVars == <<rwFile, rwText, rwStage, rwUpdated, rwFinal, rwSecond>>

vars == <<runVars, rwVars>>

Init ==
    /\ pc = "start"
    /\ exitCode = -1
    /\ configFileExists \in BOOLEAN
    /\ shouldReplaceAbsolutePaths \in BOOLEAN
    /\ nuxtConfig \in NuxtConfigs
    /\ knownDirectories = {}
    /\ pending = {}
    /\ loadCount = 0
    /\ disk \in [Files -> FileTexts]
    /\ original = disk
    /\ writes = <<>>
    /\ logged = <<>>
    /\ visited = <<>>
    /\ rwFile = FileZ /\ rwText = <<>> /\ rwStage = "off"
    /\ rwUpdated = <<>> /\ rwFinal = <<>> /\ rwSecond = <<>>

\* lines 13-16
MissingConfig ==
    /\ pc = "start"
    /\ ~configFileExists
    /\ pc' = "exited"
    /\ exitCode' = 1
    /\ UNCHANGED <<configFileExists, shouldReplaceAbsolutePaths, nuxtConfig,
                   knownDirectories, pending, loadCount, disk, original, writes,
                   logged, visited, rwVars>>

\* lines 45-79 and 160-164: the known directories, then replaceAliases(startDir)
\* runs up to its await
Startup ==
    /\ pc = "start"
    /\ configFileExists
    /\ pc' = "running"
    /\ knownDirectories' = KnownDirectoriesFor(shouldReplaceAbsolutePaths)
    /\ pending' = {StartDir}
    /\ loadCount' = 1
    /\ UNCHANGED <<exitCode, configFileExists, shouldReplaceAbsolutePaths, nuxtConfig,
                   disk, original, writes, logged, visited, rwVars>>

\* the forEach callback for one entry, on the walk state st
ProcessEntry(st, dir, file, aliases) ==
    LET filePath == Append(dir, file.name)
        seen == [st EXCEPT !.visited = Append(@, filePath)]
    IN IF file.isDirectory
       THEN [seen EXCEPT !.pending = @ \cup {filePath}, !.loadCount = @ + 1]
       ELSE IF HasAcceptedExtension(filePath)
       THEN LET content == st.disk[filePath]
                finalContent == FinalContent(content, filePath, aliases,
                                             shouldReplaceAbsolutePaths, knownDirectories)
            IN IF finalContent # content
               THEN [seen EXCEPT !.disk[filePath] = finalContent,
                                 !.writes = Append(@, filePath),
                                 !.logged = Append(@, filePath)]
               ELSE seen
       ELSE seen

RECURSIVE ForEach(_, _, _, _)
ForEach(entries, st, dir, aliases) ==
    IF entries = <<>> THEN st
    ELSE ForEach(Tail(entries), ProcessEntry(st, dir, Head(entries), aliases), dir, aliases)

\* lines 83-157: getAliasesWithPaths resolved, the call walks its directory
LoadResolved(dir) ==
    /\ pc = "running"
    /\ dir \in pending
    /\ \E st \in {ForEach(ReadDir(dir),
                         [disk |-> disk, writes |-> writes, logged |-> logged,
                          visited |-> visited, pending |-> pending \ {dir},
                          loadCount |-> loadCount],
                         dir, GetAliasesWithPaths(nuxtConfig))} :
          /\ disk' = st.disk
          /\ writes' = st.writes
          /\ logged' = st.logged
          /\ visited' = st.visited
          /\ pending' = st.pending
          /\ loadCount' = st.loadCount
    /\ UNCHANGED <<pc, exitCode, configFileExists, shouldReplaceAbsolutePaths, nuxtConfig,
                   knownDirectories, original, rwVars>>

\* lines 38-41: loadNuxtConfig threw
LoadFailed(dir) ==
    /\ pc = "running"
    /\ dir \in pending
    /\ pc' = "exited"
    /\ exitCode' = 1
    /\ pending' = {}
    /\ UNCHANGED <<configFileExists, shouldReplaceAbsolutePaths, nuxtConfig,
                   knownDirectories, loadCount, disk, original, writes, logged,
                   visited, rwVars>>

\* nothing is left to run: the process ends with exit code 0
Finish ==
    /\ pc = "running"
    /\ pending = {}
    /\ pc' = "done"
    /\ exitCode' = 0
    /\ UNCHANGED <<configFileExists, shouldReplaceAbsolutePaths, nuxtConfig,
                   knownDirectories, pending, loadCount, disk, original, writes,
                   logged, visited, rwVars>>

Next ==
    \/ MissingConfig
    \/ Startup
    \/ \E dir \in Directories : LoadResolved(dir)
    \/ \E dir \in Directories : LoadFailed(dir)
    \/ Finish

Spec == Init /\ [][Next]_vars

----------------------------------------------------------------------------
(* One file through the rewriter: the alias passes, the absolute-path      *)
(* pass, and the same again on the result                                  *)

MaxPieces == 2

Pieces ==
    { <<"'", "~", "/", "x", "'">>,
      <<"'", "~", "~", "/", "x", "'">>,
      <<"'", "/", "~", "/", "x", "'">>,
      <<"'", "/", "~", "~", "/", "x", "'">>,
      <<"\"", "/", "c", "/", "x", "\"">>,
      <<"'", "/", "u", "/", "x", "'">>,
      <<"\"", "x", "\"", "/", ">">>,
      <<"'", "/", "c", "/", "a", "s", "s", "e", "t", "s", "/", "x", "'">>,
      <<"'", "#", "/", "a", "s", "s", "e", "t", "s", "/", "x", "'">> }

RewriterTexts == TextsOf(Pieces, MaxPieces)

InitRewriter ==
    /\ pc = "off"
    /\ exitCode = -1
    /\ configFileExists = TRUE
    /\ shouldReplaceAbsolutePaths \in BOOLEAN
    /\ nuxtConfig \in NuxtConfigs
    /\ knownDirectories = KnownDirectoriesFor(shouldReplaceAbsolutePaths)
    /\ pending = {}
    /\ loadCount = 0
    /\ disk = [f \in Files |-> <<>>]
    /\ original = disk
    /\ writes = <<>>
    /\ logged = <<>>
    /\ visited = <<>>
    /\ rwFile \in {FileZ, FileB}
    /\ rwText \in RewriterTexts
    /\ rwStage = "input"
    /\ rwUpdated = <<>> /\ rwFinal = <<>> /\ rwSecond = <<>>

\* lines 102-115
AliasPasses ==
    /\ rwStage = "input"
    /\ rwStage' = "aliased"
    /\ rwUpdated' = ReduceAliases(GetAliasesWithPaths(nuxtConfig), rwText, rwFile)
    /\ UNCHANGED <<runVars, rwFile, rwText, rwFinal, rwSecond>>

Swap(seq, i, j) ==
    [k \in DOMAIN seq |-> IF k = i THEN seq[j] ELSE IF k = j THEN seq[i] ELSE seq[k]]

\* lines 102-115 when Object.entries yields two of the entries the other way round
AliasPassesReordered(i, j) ==
    /\ rwStage = "input"
    /\ i < j
    /\ rwStage' = "reordered"
    /\ rwUpdated' = ReduceAliases(Swap(GetAliasesWithPaths(nuxtConfig), i, j), rwText, rwFile)
    /\ UNCHANGED <<runVars, rwFile, rwText, rwFinal, rwSecond>>

\* lines 118-143
AbsolutePass ==
    /\ rwStage = "aliased"
    /\ shouldReplaceAbsolutePaths
    /\ rwStage' = "final"
    /\ rwFinal' = AbsoluteStage(rwUpdated, rwFile, knownDirectories)
    /\ UNCHANGED <<runVars, rwFile, rwText, rwUpdated, rwSecond>>

\* lines 149-155
NoAbsolutePass ==
    /\ rwStage = "aliased"
    /\ ~shouldReplaceAbsolutePaths
    /\ rwStage' = "final"
    /\ rwFinal' = rwUpdated
    /\ UNCHANGED <<runVars, rwFile, rwText, rwUpdated, rwSecond>>

\* the next run reads what this one left in the file
SecondRun ==
    /\ rwStage = "final"
    /\ rwStage' = "second"
    /\ rwSecond' = FinalContent(rwFinal, rwFile, GetAliasesWithPaths(nuxtConfig),
                                shouldReplaceAbsolutePaths, knownDirectories)
    /\ UNCHANGED <<runVars, rwFile, rwText, rwUpdated, rwFinal>>

NextRewriter ==
    \/ AliasPasses
    \/ \E i, j \in 1..Len(GetAliasesWithPaths(nuxtConfig)) : AliasPassesReordered(i, j)
    \/ AbsolutePass
    \/ NoAbsolutePass
    \/ SecondRun

SpecRewriter == InitRewriter /\ [][NextRewriter]_vars

----------------------------------------------------------------------------
(* Properties                                                              *)

Contains(s, t) ==
    \E k \in 1..(Len(s) - Len(t) + 1) : SubSeq(s, k, k + Len(t) - 1) = t

Count(seq, x) == Cardinality({i \in DOMAIN seq : seq[i] = x})

Position(seq, x) == CHOOSE i \in DOMAIN seq : seq[i] = x

AcceptedExtensions ==
    { <<".", "t", "s">>, <<".", "v", "u", "e">>, <<".", "s", "c", "s", "s">>, <<".", "j", "s">> }

NameIsAccepted(f) == \E ext \in AcceptedExtensions : EndsWith(f[Len(f)], ext)

TheAliases == Range(GetAliasesWithPaths(nuxtConfig))

\* position i of text s starts  alias/<subpath><quote>
OccurrenceAt(s, i, alias) ==
    /\ StartsWithAt(s, i, alias \o <<"/">>)
    /\ ClosingQuote(s, i + Len(alias) + 1) # 0

SubpathAt(s, i, alias) ==
    SubSeq(s, i + Len(alias) + 1, ClosingQuote(s, i + Len(alias) + 1) - 1)

QuoteAt(s, i, alias) == s[ClosingQuote(s, i + Len(alias) + 1)]

\* C1: every occurrence  t/<subpath><quote>  of an alias token t with target D
\* that is not preceded by "/" reads  relativePath(dirOf(F), D/<subpath>)<quote>
\* after all alias passes.
C1_AliasCorrectness ==
    rwStage = "aliased" =>
        \A e \in TheAliases : \A i \in 1..Len(rwText) :
            (OccurrenceAt(rwText, i, e[1]) /\ (i = 1 \/ rwText[i - 1] # "/")) =>
                Contains(rwUpdated,
                         PathRelative(PathDirname(rwFile),
                                      PathJoin(e[2], SubpathAt(rwText, i, e[1])))
                         \o <<QuoteAt(rwText, i, e[1])>>)

\* C2: a second run over the result of the first changes nothing.
C2_Idempotence ==
    rwStage = "second" => rwSecond = rwFinal

EffectiveRoot(f) ==
    IF Len(f) > Len(StartDir) /\ SubSeq(f, 1, Len(StartDir)) = StartDir
    THEN StartDir ELSE ProjectRoot

\* position i of text s starts a literal  <quote>/<subpath><quote>
LiteralAt(s, i) ==
    /\ s[i] \in Quotes
    /\ StartsWithAt(s, i + 1, <<"/">>)
    /\ ClosingQuote(s, i + 2) # 0
    /\ s[ClosingQuote(s, i + 2)] = s[i]

\* C3: in absolute-path mode every literal  <quote>/<subpath><quote>  whose first
\* segment is a known directory is replaced by
\* <quote>relativePath(dirOf(F), effectiveRoot/<subpath>)<quote>, every other
\* such literal is left as it is.
C3_AbsoluteEligibility ==
    (rwStage = "final" /\ shouldReplaceAbsolutePaths) =>
        \A i \in 1..Len(rwUpdated) :
            LiteralAt(rwUpdated, i) =>
                LET j == ClosingQuote(rwUpdated, i + 2)
                    subpath == SubSeq(rwUpdated, i + 2, j - 1)
                IN IF Head(Split(subpath, <<>>)) \in GetKnownDirectories
                   THEN Contains(rwFinal,
                                 <<rwUpdated[i]>>
                                 \o PathRelative(PathDirname(rwFile),
                                                 PathJoin(EffectiveRoot(rwFile), subpath))
                                 \o <<rwUpdated[i]>>)
                   ELSE Contains(rwFinal, SubSeq(rwUpdated, i, j))

\* C4: an occurrence  t/<subpath><quote>  of an alias token t that is preceded by
\* "/" has the same characters after all alias passes.
C4_SlashPrefixGuard ==
    rwStage = "aliased" =>
        \A e \in TheAliases : \A i \in 2..Len(rwText) :
            (OccurrenceAt(rwText, i, e[1]) /\ rwText[i - 1] = "/") =>
                Contains(rwUpdated,
                         e[1] \o <<"/">> \o SubpathAt(rwText, i, e[1])
                         \o <<QuoteAt(rwText, i, e[1])>>)

\* C5: a file is written only if its name ends with .ts, .vue, .scss or .js and
\* its content changed; every other file keeps its content; every written file
\* is written once and reported once.
C5_WriteFrame ==
    \A f \in Files :
        /\ Count(writes, f) <= 1
        /\ Count(logged, f) = Count(writes, f)
        /\ Count(writes, f) = 1 => (NameIsAccepted(f) /\ disk[f] # original[f])
        /\ Count(writes, f) = 0 => disk[f] = original[f]

C5_Witness ==
    /\ pc = "done"
    /\ Count(writes, FileZ) = 1
    /\ original[FileN] # <<>> /\ Count(writes, FileN) = 0
    /\ original[FileB] # <<>> /\ Count(writes, FileB) = 0

\* C6: when the process exits with code 1 no file has been written.
C6_FatalBeforeRewriting ==
    exitCode = 1 => writes = <<>>

\* C9: once the traversal has started the Project Configuration Provider has
\* been consulted exactly once, however many directories there are.
C9_AliasTableOnce ==
    pc \in {"running", "done"} => loadCount = 1

Under(dir) == {f \in Files : Len(f) > Len(dir) /\ SubSeq(f, 1, Len(dir)) = dir}

\* C10: when entry i of a directory is a subdirectory, every accepted file under
\* it has been handled before any later entry of that directory is handled.
C10_DepthFirst ==
    \A d \in Directories : \A i, j \in DOMAIN ReadDir(d) :
        LET sub == Append(d, ReadDir(d)[i].name)
            later == Append(d, ReadDir(d)[j].name)
        IN (i < j /\ ReadDir(d)[i].isDirectory /\ Count(visited, later) > 0) =>
               \A f \in Under(sub) :
                   NameIsAccepted(f) =>
                       /\ Count(visited, f) > 0
                       /\ Position(visited, f) < Position(visited, later)

\* C7: the alias passes give the same text in every order of the tokens.
C7_OrderIndependence ==
    rwStage = "reordered" =>
        rwUpdated = ReduceAliases(GetAliasesWithPaths(nuxtConfig), rwText, rwFile)

\* C8: a specifier whose target is a sibling of the rewritten file is replaced
\* by  ./<name>.
C8_DotRelative ==
    rwStage = "aliased" =>
        \A e \in TheAliases : \A i \in 2..Len(rwText) :
            (OccurrenceAt(rwText, i, e[1]) /\ rwText[i - 1] \in Quotes) =>
                LET target == PathJoin(e[2], SubpathAt(rwText, i, e[1]))
                IN (target # <<>> /\ PathDirname(target) = PathDirname(rwFile)) =>
                       Contains(rwUpdated,
                                <<rwText[i - 1], ".", "/">> \o target[Len(target)]
                                \o <<QuoteAt(rwText, i, e[1])>>)

====
